---- MODULE Spec2Model ----
(***************************************************************************)
(* Model of ormlite's attr/src/metadata.rs: the assembly of a table        *)
(* descriptor (TableMetadata) and of its column descriptors                *)
(* (ColumnMetadata) from a parsed `syn::DeriveInput`.                       *)
(*                                                                         *)
(* Strings that the code inspects or builds character by character (the    *)
(* type identifier, table names, column names) are sequences of            *)
(* one-character strings; identifiers that are only compared as a whole    *)
(* (path segments) are plain strings.  Option<T> is a sequence of length   *)
(* at most one: None == <<>>, Some(v) == <<v>>.  Attribute arguments are   *)
(* taken as already parsed (ModelAttributes / ColumnAttributes).           *)
(***************************************************************************)
EXTENDS Integers, Sequences, FiniteSets, TLC

VARIABLES ast, field, table, column

vars == <<ast, field, table, column>>

----------------------------------------------------------------------------
(* Option, Result                                                          *)

None == <<>>

Some(v) == <<v>>

IsSome(o) == Len(o) = 1

Ok(v) == [kind |-> "Ok", value |-> v]

Err(e) == [kind |-> "Err", error |-> e]

Panic(e) == [kind |-> "Panic", error |-> e]

Pending == [kind |-> "Pending"]

----------------------------------------------------------------------------
(* Case conversion of the type identifier (line 44)                        *)

UpperChars == <<"A","B","C","D","E","F","G","H","I","J","K","L","M",
                "N","O","P","Q","R","S","T","U","V","W","X","Y","Z">>

LowerChars == <<"a","b","c","d","e","f","g","h","i","j","k","l","m",
                "n","o","p","q","r","s","t","u","v","w","x","y","z">>

UpperSet == {UpperChars[i] : i \in DOMAIN UpperChars}

LowerSet == {LowerChars[i] : i \in DOMAIN LowerChars}

(* char::to_lowercase on the ASCII capitals.                               *)
LowerOf == [c \in UpperSet |-> LowerChars[CHOOSE i \in DOMAIN UpperChars : UpperChars[i] = c]]

IsUpper(c) == c \in UpperSet

IsLower(c) == c \in LowerSet

ToLower(c) == IF IsUpper(c) THEN LowerOf[c] ELSE c

(* A word starts at position i of s when s[i-1..i] is lower-upper, or      *)
(* s[i-1..i+1] is upper-upper-lower (the end of an acronym).               *)
WordBoundary(s, i) ==
    /\ i > 1
    /\ \/ IsLower(s[i-1]) /\ IsUpper(s[i])
       \/ /\ IsUpper(s[i-1]) /\ IsUpper(s[i])
          /\ i < Len(s)
          /\ IsLower(s[i+1])

RECURSIVE SnakeFrom(_, _)
SnakeFrom(s, i) ==
    IF i > Len(s) THEN <<>>
    ELSE (IF WordBoundary(s, i) THEN <<"_">> ELSE <<>>)
         \o <<ToLower(s[i])>> \o SnakeFrom(s, i + 1)

(* ident.to_string().to_case(Case::Snake), for identifiers made of ASCII   *)
(* letters.                                                                *)
SnakeCase(s) == SnakeFrom(s, 1)

----------------------------------------------------------------------------
(* Join classifier                                                         *)

(* A syn::Type is either a path type with its segments' identifiers, or    *)
(* some other shape (reference, tuple, ...).                               *)
TypePath(segments) == [kind |-> "Path", segments |-> segments]

TypeOther == [kind |-> "Tuple", segments |-> <<>>]

ty_is_join_first_segment(ty) ==
    IF ty.kind # "Path" THEN FALSE
    ELSE IF Len(ty.segments) = 0 THEN FALSE
    ELSE ty.segments[1] = "Join"

ty_is_join(ty) ==
    IF ty.kind # "Path" THEN FALSE
    ELSE IF Len(ty.segments) = 0 THEN FALSE
    ELSE ty.segments[Len(ty.segments)] = "Join"

----------------------------------------------------------------------------
(* ColumnMetadata assembler                                                *)

IsOrmlite(attr) == attr.path = "ormlite"

RECURSIVE FilterOrmlite(_)
FilterOrmlite(attrs) ==
    IF attrs = <<>> THEN <<>>
    ELSE (IF IsOrmlite(Head(attrs)) THEN <<Head(attrs)>> ELSE <<>>)
         \o FilterOrmlite(Tail(attrs))

ColumnMetadataBuilderDefault ==
    [column_name |-> None, column_type |-> None, marked_primary_key |-> None,
     has_database_default |-> None, identifier |-> None,
     many_to_one_key |-> None, many_to_many_table_name |-> None,
     one_to_many_foreign_key |-> None]

(* derive_builder's build(): every field must have been set.               *)
ColumnMetadataBuild(b) ==
    IF \E k \in DOMAIN b : ~IsSome(b[k])
    THEN Err([type |-> "BuilderIncomplete"])
    ELSE Ok([k \in DOMAIN b |-> b[k][1]])

ColumnAttrStepFirstWins(st, args) ==
    LET b0 == st.builder
        b1 == IF args.primary_key
              THEN [b0 EXCEPT !.marked_primary_key = Some(TRUE),
                              !.has_database_default = Some(TRUE)]
              ELSE b0
        b2 == IF args.default
              THEN [b1 EXCEPT !.has_database_default = Some(TRUE)]
              ELSE b1
        b3 == IF IsSome(args.many_to_one_key) /\ b2.many_to_one_key = Some(None)
              THEN LET value == args.many_to_one_key[1]
                   IN [b2 EXCEPT !.many_to_one_key = Some(Some(value[Len(value)]))]
              ELSE b2
        b4 == IF IsSome(args.many_to_many_table_name)
              THEN [b3 EXCEPT !.many_to_many_table_name =
                                  Some(Some(args.many_to_many_table_name[1]))]
              ELSE b3
        b5 == IF IsSome(args.one_to_many_foreign_key)
              THEN [b4 EXCEPT !.one_to_many_foreign_key =
                                  Some(Some(args.one_to_many_foreign_key[1]))]
              ELSE b4
    IN [builder |-> b5,
        has_join_directive |->
            \/ st.has_join_directive
            \/ IsSome(args.many_to_one_key)
            \/ IsSome(args.many_to_many_table_name)
            \/ IsSome(args.one_to_many_foreign_key)]

(* Lines 165-184: the body of the loop for one parsed attribute, on the    *)
(* pair of the builder and the has_join_directive flag.                    *)
ColumnAttrStep(st, args) ==
    LET b0 == st.builder
        b1 == IF args.primary_key
              THEN [b0 EXCEPT !.marked_primary_key = Some(TRUE),
                              !.has_database_default = Some(TRUE)]
              ELSE b0
        b2 == IF args.default
              THEN [b1 EXCEPT !.has_database_default = Some(TRUE)]
              ELSE b1
        b3 == IF IsSome(args.many_to_one_key)
              THEN LET value == args.many_to_one_key[1]
                   IN [b2 EXCEPT !.many_to_one_key = Some(Some(value[Len(value)]))]
              ELSE b2
        b4 == IF IsSome(args.many_to_many_table_name)
              THEN [b3 EXCEPT !.many_to_many_table_name =
                                  Some(Some(args.many_to_many_table_name[1]))]
              ELSE b3
        b5 == IF IsSome(args.one_to_many_foreign_key)
              THEN [b4 EXCEPT !.one_to_many_foreign_key =
                                  Some(Some(args.one_to_many_foreign_key[1]))]
              ELSE b4
    IN [builder |-> b5,
        has_join_directive |->
            \/ st.has_join_directive
            \/ IsSome(args.many_to_one_key)
            \/ IsSome(args.many_to_many_table_name)
            \/ IsSome(args.one_to_many_foreign_key)]

(* Lines 163-185: the loop over the field's ormlite attributes, in order.  *)
RECURSIVE ColumnAttrLoop(_, _)
ColumnAttrLoop(st, attrs) ==
    IF attrs = <<>> THEN st
    ELSE ColumnAttrLoop(ColumnAttrStep(st, Head(attrs).args), Tail(attrs))

ColumnMetadataTryFromUnchecked(f) ==
    LET ident == f.ident
        builder == [ColumnMetadataBuilderDefault EXCEPT
                       !.column_name = Some(ident),
                       !.identifier = Some(ident),
                       !.column_type = Some(f.ty),
                       !.marked_primary_key = Some(FALSE),
                       !.has_database_default = Some(FALSE),
                       !.many_to_one_key = Some(None),
                       !.many_to_many_table_name = Some(None),
                       !.one_to_many_foreign_key = Some(None)]
        st == ColumnAttrLoop([builder |-> builder, has_join_directive |-> FALSE],
                             FilterOrmlite(f.attrs))
    IN ColumnMetadataBuild(st.builder)

(* impl TryFrom<&Field> for ColumnMetadata                                 *)
ColumnMetadataTryFrom(f) ==
    LET ident == f.ident
        builder == [ColumnMetadataBuilderDefault EXCEPT
                       !.column_name = Some(ident),
                       !.identifier = Some(ident),
                       !.column_type = Some(f.ty),
                       !.marked_primary_key = Some(FALSE),
                       !.has_database_default = Some(FALSE),
                       !.many_to_one_key = Some(None),
                       !.many_to_many_table_name = Some(None),
                       !.one_to_many_foreign_key = Some(None)]
        st == ColumnAttrLoop([builder |-> builder, has_join_directive |-> FALSE],
                             FilterOrmlite(f.attrs))
    IN IF ty_is_join(f.ty) /\ ~st.has_join_directive
       THEN Err([type |-> "JoinMissingDirective", column |-> ident])
       ELSE ColumnMetadataBuild(st.builder)

----------------------------------------------------------------------------
(* TableMetadata assembler                                                 *)

TableMetadataBuilderDefault ==
    [table_name |-> None, struct_name |-> None, primary_key |-> None,
     columns |-> None, insert_struct |-> None]

(* derive_builder's build(): every field must have been set.               *)
TableMetadataBuild(b) ==
    IF \E k \in DOMAIN b : ~IsSome(b[k])
    THEN Err([type |-> "BuilderIncomplete"])
    ELSE Ok([k \in DOMAIN b |-> b[k][1]])

ModelAttrStepKeepFirst(b, args) ==
    LET b1 == IF IsSome(args.table) /\ ~IsSome(b.table_name)
              THEN [b EXCEPT !.table_name = Some(args.table[1])]
              ELSE b
    IN IF IsSome(args.Insertable)
       THEN [b1 EXCEPT !.insert_struct = Some(Some(args.Insertable[1]))]
       ELSE b1

(* Lines 29-34: the body of the loop for one parsed attribute.             *)
ModelAttrStep(b, args) ==
    LET b1 == IF IsSome(args.table)
              THEN [b EXCEPT !.table_name = Some(args.table[1])]
              ELSE b
    IN IF IsSome(args.Insertable)
       THEN [b1 EXCEPT !.insert_struct = Some(Some(args.Insertable[1]))]
       ELSE b1

RECURSIVE ModelAttrLoop(_, _)
ModelAttrLoop(b, attrs) ==
    IF attrs = <<>> THEN b
    ELSE ModelAttrLoop(ModelAttrStep(b, Head(attrs).args), Tail(attrs))

(* TableMetadata::builder_from_struct_attributes                           *)
builder_from_struct_attributes(a) ==
    LET builder == [TableMetadataBuilderDefault EXCEPT
                       !.insert_struct = Some(None),
                       !.struct_name = Some(a.ident)]
    IN Ok(ModelAttrLoop(builder, FilterOrmlite(a.attrs)))

GetOrInsertAlways(o, v) == Some(v)

(* Option::get_or_insert                                                   *)
GetOrInsert(o, v) == IF IsSome(o) THEN o ELSE Some(v)

(* Lines 47-49: .map(ColumnMetadata::try_from).collect::<Result<Vec,_>>()  *)
(* stops at the first field whose column fails.                            *)
RECURSIVE CollectColumns(_)
CollectColumns(fields) ==
    IF fields = <<>> THEN Ok(<<>>)
    ELSE LET c == ColumnMetadataTryFrom(Head(fields))
         IN IF c.kind = "Err" THEN c
            ELSE LET rest == CollectColumns(Tail(fields))
                 IN IF rest.kind = "Err" THEN rest
                    ELSE Ok(<<c.value>> \o rest.value)

LastMarked(cols) ==
    LET marked == {i \in DOMAIN cols : cols[i].marked_primary_key}
    IN IF marked = {} THEN None
       ELSE Some(cols[CHOOSE i \in marked : \A j \in marked : i >= j].column_name)

(* Lines 50-54: the name of the first column marked as primary key.        *)
FirstMarked(cols) ==
    LET marked == {i \in DOMAIN cols : cols[i].marked_primary_key}
    IN IF marked = {} THEN None
       ELSE Some(cols[CHOOSE i \in marked : \A j \in marked : i <= j].column_name)

(* Lines 57-63: the names that make a column the primary key.              *)
InferredNames(table_name) ==
    { <<"i","d">>, <<"u","u","i","d">>,
      table_name \o <<"_","i","d">>,
      table_name \o <<"_","u","u","i","d">> }

(* Lines 56-69: the index of the first column with an inferred name, or 0. *)
FirstInferred(cols, table_name) ==
    LET hits == {i \in DOMAIN cols : cols[i].column_name \in InferredNames(table_name)}
    IN IF hits = {} THEN 0
       ELSE CHOOSE i \in hits : \A j \in hits : i <= j

SetDatabaseDefaultSkipped(cols, hit) == cols

SetDatabaseDefaultNoBreak(cols, hit) ==
    IF hit = 0 THEN cols
    ELSE [i \in DOMAIN cols |->
            IF i >= hit THEN [cols[i] EXCEPT !.has_database_default = TRUE]
            ELSE cols[i]]

(* Line 66: the column the loop stopped at (none when hit = 0) gets        *)
(* has_database_default.                                                   *)
SetDatabaseDefault(cols, hit) ==
    IF hit = 0 THEN cols
    ELSE [cols EXCEPT ![hit].has_database_default = TRUE]

(* TableMetadataBuilder::complete_with_struct_body                         *)
complete_with_struct_body(self, a) ==
    LET model_lowercased == SnakeCase(a.ident)
        self1 == [self EXCEPT !.table_name = GetOrInsert(@, model_lowercased)]
        collected == CollectColumns(a.fields)
    IN IF collected.kind = "Err" THEN Panic(collected.error)
       ELSE
       LET cols == collected.value
           marked == FirstMarked(cols)
           hit == IF IsSome(marked) THEN 0
                  ELSE FirstInferred(cols, self1.table_name[1])
           primary_key == IF IsSome(marked) THEN marked
                          ELSE IF hit = 0 THEN None
                          ELSE Some(cols[hit].column_name)
           cols1 == SetDatabaseDefault(cols, hit)
           self2 == [self1 EXCEPT !.primary_key = Some(primary_key),
                                  !.columns = Some(cols1)]
       IN TableMetadataBuild(self2)

TableMetadataTryFromUnchecked(a) ==
    LET b == builder_from_struct_attributes(a)
    IN IF b.kind = "Err" THEN b
       ELSE complete_with_struct_body(b.value, a)

(* impl TryFrom<&DeriveInput> for TableMetadata                            *)
TableMetadataTryFrom(a) ==
    LET b == builder_from_struct_attributes(a)
    IN IF b.kind = "Err" THEN b
       ELSE LET result == complete_with_struct_body(b.value, a)
            IN IF result.kind = "Ok" /\ ~IsSome(result.value.primary_key)
               THEN Err([type |-> "MissingPrimaryKey",
                         table_name |-> result.value.table_name])
               ELSE result

----------------------------------------------------------------------------
(* Inputs                                                                  *)

MaxFields == 2

MaxColumnAttrs == 2

MaxModelAttrs == 2

SeqsUpTo(S, n) == UNION {[1..k -> S] : k \in 0..n}

User == <<"U","s","e","r">>

DBUser == <<"D","B","U","s","e","r">>

TypeIdents == {User, DBUser}

s_id == <<"i","d">>

s_uuid == <<"u","u","i","d">>

s_user_id == <<"u","s","e","r","_","i","d">>

s_db_user_uuid == <<"d","b","_","u","s","e","r","_","u","u","i","d">>

s_t_id == <<"t","_","i","d">>

s_name == <<"n","a","m","e">>

s_t == <<"t">>

s_user == <<"u","s","e","r">>

ColumnNames == {s_id, s_uuid, s_user_id, s_db_user_uuid, s_t_id, s_name}

TableStrings == {<<>>, s_t, s_user}

InsertIdents == {"NewUser", "UserInsert"}

Paths == {<<"owner_id">>, <<"local", "customer_id">>}

Opt(S) == {None} \cup {Some(v) : v \in S}

I32 == TypePath(<<"i32">>)

JoinTy == TypePath(<<"Join">>)

Types == {I32, JoinTy, TypePath(<<"ormlite", "Join">>),
          TypePath(<<"Join", "Inner">>), TypeOther}

NoColumnArgs ==
    [primary_key |-> FALSE, default |-> FALSE, many_to_one_key |-> None,
     many_to_many_table_name |-> None, one_to_many_foreign_key |-> None]

OrmliteAttr(args) == [path |-> "ormlite", args |-> args]

(* An attribute of another macro: its arguments are never parsed.          *)
SerdeAttr == [path |-> "serde", args |-> <<>>]

FlagArgs ==
    {[NoColumnArgs EXCEPT !.primary_key = p, !.default = d, !.many_to_one_key = k] :
        p \in BOOLEAN, d \in BOOLEAN, k \in {None, Some(<<"owner_id">>)}}

(* Groups that give up to two of the three join options.                   *)
JoinArgs ==
    {x \in {[NoColumnArgs EXCEPT !.many_to_one_key = k, !.many_to_many_table_name = m,
                                 !.one_to_many_foreign_key = o] :
                k \in Opt(Paths), m \in Opt(Paths), o \in Opt(Paths)} :
        \/ x.many_to_one_key = None
        \/ x.many_to_many_table_name = None
        \/ x.one_to_many_foreign_key = None}

ColumnAttrs == {OrmliteAttr(x) : x \in FlagArgs \cup JoinArgs} \cup {SerdeAttr}

(* The fields of the column experiments: every attribute sequence on every *)
(* shape of type.                                                          *)
ColumnFields ==
    {[ident |-> s_name, ty |-> ty, attrs |-> attrs] :
        ty \in Types, attrs \in SeqsUpTo(ColumnAttrs, MaxColumnAttrs)}

PkAttr == OrmliteAttr([NoColumnArgs EXCEPT !.primary_key = TRUE])

DefaultAttr == OrmliteAttr([NoColumnArgs EXCEPT !.default = TRUE])

KeyAttr == OrmliteAttr([NoColumnArgs EXCEPT !.many_to_one_key = Some(<<"local", "customer_id">>)])

(* The fields of the table experiments.                                    *)
TableFields ==
    {[ident |-> n, ty |-> I32, attrs |-> attrs] :
        n \in ColumnNames, attrs \in {<<>>, <<PkAttr>>, <<DefaultAttr>>}}
    \cup
    {[ident |-> n, ty |-> JoinTy, attrs |-> attrs] :
        n \in {s_id, s_name}, attrs \in {<<>>, <<KeyAttr>>}}

ModelAttrs ==
    {OrmliteAttr([table |-> t, Insertable |-> i]) :
        t \in Opt(TableStrings), i \in Opt(InsertIdents)} \cup {SerdeAttr}

IdField == [ident |-> s_id, ty |-> I32, attrs |-> <<>>]

NameField == [ident |-> s_name, ty |-> I32, attrs |-> <<>>]

(* Record types whose fields vary, under no, one or an empty `table`.      *)
FieldInputs ==
    {[ident |-> i, attrs |-> attrs, fields |-> fields] :
        i \in TypeIdents,
        attrs \in {<<>>} \cup {<<OrmliteAttr([table |-> Some(t), Insertable |-> None])>> :
                                  t \in {<<>>, s_t}},
        fields \in SeqsUpTo(TableFields, MaxFields)}

(* Record types whose type-level attributes vary.                          *)
AttrInputs ==
    {[ident |-> i, attrs |-> attrs, fields |-> fields] :
        i \in TypeIdents,
        attrs \in SeqsUpTo(ModelAttrs, MaxModelAttrs),
        fields \in {<<IdField>>, <<NameField, IdField>>}}

DeriveInputs == FieldInputs \cup AttrInputs

----------------------------------------------------------------------------
(* State machine: one extraction of a record type, one of a field.         *)

(* No record type, no field: the extraction is given the other one.       *)
NoInput == [ident |-> <<>>]

(* try_from is called either on a record type or on one field.             *)
Init ==
    /\ \/ ast \in DeriveInputs /\ field = NoInput
       \/ ast = NoInput /\ field \in ColumnFields
    /\ table = Pending
    /\ column = Pending

(* TableMetadata::try_from(&ast)                                           *)
TableTryFrom ==
    /\ ast # NoInput
    /\ table.kind = "Pending"
    /\ table' = TableMetadataTryFrom(ast)
    /\ UNCHANGED <<ast, field, column>>

(* ColumnMetadata::try_from(&field)                                        *)
ColumnTryFrom ==
    /\ field # NoInput
    /\ column.kind = "Pending"
    /\ column' = ColumnMetadataTryFrom(field)
    /\ UNCHANGED <<ast, field, table>>

Next == TableTryFrom \/ ColumnTryFrom

Spec == Init /\ [][Next]_vars

----------------------------------------------------------------------------
(* What the input says, read off the declaration itself                    *)

JoinOptions == {"many_to_one_key", "many_to_many_table_name", "one_to_many_foreign_key"}

(* The positions of the directive groups addressed to this extractor.      *)
Groups(attrs) == {i \in DOMAIN attrs : attrs[i].path = "ormlite"}

Supplying(attrs, opt) == {i \in Groups(attrs) : attrs[i].args[opt] # None}

Largest(S) == CHOOSE i \in S : \A j \in S : j <= i

Smallest(S) == CHOOSE i \in S : \A j \in S : i <= j

(* The value the last group that supplies opt gives to it, if any does.    *)
LastSupplied(attrs, opt) ==
    IF Supplying(attrs, opt) = {} THEN None
    ELSE attrs[Largest(Supplying(attrs, opt))].args[opt]

Flagged(attrs, flag) == \E i \in Groups(attrs) : attrs[i].args[flag]

JoinWrapper(ty) ==
    /\ ty.kind = "Path"
    /\ Len(ty.segments) > 0
    /\ ty.segments[Len(ty.segments)] = "Join"

(* A join-typed field on which no group supplies a join option.            *)
UndirectedJoin(f) ==
    /\ JoinWrapper(f.ty)
    /\ \A opt \in JoinOptions : Supplying(f.attrs, opt) = {}

UndirectedJoins(a) == {i \in DOMAIN a.fields : UndirectedJoin(a.fields[i])}

(* The final table name: the last `table` directive, else the snake case   *)
(* of the type identifier.                                                 *)
FinalTableName(a) ==
    IF LastSupplied(a.attrs, "table") # None
    THEN LastSupplied(a.attrs, "table")[1]
    ELSE SnakeCase(a.ident)

Candidates(a) ==
    LET T == FinalTableName(a)
        names == { <<"i","d">>, <<"u","u","i","d">>,
                   T \o <<"_","i","d">>, T \o <<"_","u","u","i","d">> }
    IN {i \in DOMAIN a.fields : a.fields[i].ident \in names}

MarkedFields(a) == {i \in DOMAIN a.fields : Flagged(a.fields[i].attrs, "primary_key")}

SetJoinFields(c) == {opt \in JoinOptions : c[opt] # None}

TableDone == table.kind # "Pending"

ColumnDone == column.kind # "Pending"

MissingPrimaryKey == table.kind = "Err" /\ table.error.type = "MissingPrimaryKey"

JoinMissingDirective == column.kind = "Err" /\ column.error.type = "JoinMissingDirective"

----------------------------------------------------------------------------
(* C1: for a record type with at least one field, try_from returns a       *)
(* descriptor whose primary_key is present or fails with                   *)
(* MissingPrimaryKey, and has no other outcome.                            *)
C1_TwoOutcomes ==
    (TableDone /\ Len(ast.fields) >= 1) =>
        \/ table.kind = "Ok" /\ IsSome(table.value.primary_key)
        \/ MissingPrimaryKey

(* C1: as amended.  The third outcome is the abnormal termination on a     *)
(* join-typed field without a join directive, and it happens exactly for   *)
(* the record types that have such a field; no descriptor ever carries     *)
(* primary_key = None.                                                     *)
C1_ThreeOutcomes ==
    (TableDone /\ Len(ast.fields) >= 1) =>
        /\ \/ table.kind = "Ok" /\ IsSome(table.value.primary_key)
           \/ MissingPrimaryKey
           \/ table.kind = "Panic" /\ table.error.type = "JoinMissingDirective"
        /\ table.kind = "Panic" <=> UndirectedJoins(ast) # {}

C1_Witness ==
    /\ MissingPrimaryKey
    /\ Len(ast.fields) >= 1
    /\ UndirectedJoins(ast) = {}

(* C2: when the column assembler fails for a field, try_from returns that  *)
(* failure (JoinMissingDirective naming the first such column) to its      *)
(* caller as an Err value.                                                 *)
C2_FailureIsReturned ==
    (TableDone /\ UndirectedJoins(ast) # {}) =>
        /\ table.kind = "Err"
        /\ table.error.type = "JoinMissingDirective"
        /\ table.error.column = ast.fields[Smallest(UndirectedJoins(ast))].ident

(* C3: for a field whose type is the join wrapper, the column has exactly  *)
(* one of the three join fields set, or the assembly fails with            *)
(* JoinMissingDirective.                                                   *)
C3_ExactlyOneJoinField ==
    (ColumnDone /\ JoinWrapper(field.ty)) =>
        \/ column.kind = "Ok" /\ Cardinality(SetJoinFields(column.value)) = 1
        \/ JoinMissingDirective

(* C3: as amended.  The column has at least one join field set, namely     *)
(* every one that some directive group supplies, or the assembly fails     *)
(* with JoinMissingDirective naming the column, which it does exactly when *)
(* no group supplies a join option.                                        *)
C3_AtLeastOneJoinField ==
    (ColumnDone /\ JoinWrapper(field.ty)) =>
        \/ /\ column.kind = "Ok"
           /\ Cardinality(SetJoinFields(column.value)) >= 1
           /\ SetJoinFields(column.value) =
                  {opt \in JoinOptions : Supplying(field.attrs, opt) # {}}
        \/ /\ JoinMissingDirective
           /\ column.error.column = field.ident
           /\ UndirectedJoin(field)

C3_Witness ==
    /\ column.kind = "Ok"
    /\ JoinWrapper(field.ty)
    /\ Cardinality(SetJoinFields(column.value)) = 2

C5_FirstMarkedIsPrimaryKey ==
    (TableDone /\ MarkedFields(ast) # {} /\ UndirectedJoins(ast) = {}) =>
        /\ table.kind = "Ok"
        /\ LET cols == table.value.columns
               marked == {i \in DOMAIN cols : cols[i].marked_primary_key}
           IN /\ marked = MarkedFields(ast)
              /\ table.value.primary_key = Some(ast.fields[Smallest(marked)].ident)
              /\ table.value.primary_key = Some(cols[Smallest(marked)].column_name)

C5_Witness ==
    /\ table.kind = "Ok"
    /\ Len(ast.fields) = 2
    /\ 1 \in Candidates(ast)
    /\ MarkedFields(ast) = {2}
    /\ ast.fields[1].ident # ast.fields[2].ident
    /\ table.value.primary_key = Some(ast.fields[2].ident)

(* C6: when no column is marked, primary_key is the name of the first      *)
(* column named id, uuid, T_id or T_uuid, T being the final table name     *)
(* (the `table` directive if supplied, else the snake case of the type     *)
(* identifier); when no column has such a name the extraction fails with   *)
(* MissingPrimaryKey.                                                      *)
C6_InferredPrimaryKey ==
    (TableDone /\ UndirectedJoins(ast) = {} /\ MarkedFields(ast) = {}) =>
        IF Candidates(ast) = {}
        THEN MissingPrimaryKey /\ table.error.table_name = FinalTableName(ast)
        ELSE /\ table.kind = "Ok"
             /\ table.value.primary_key =
                    Some(ast.fields[Smallest(Candidates(ast))].ident)

C6_Witness ==
    /\ MissingPrimaryKey
    /\ LastSupplied(ast.attrs, "table") # None
    /\ FinalTableName(ast) # SnakeCase(ast.ident)
    /\ \E i \in DOMAIN ast.fields :
          ast.fields[i].ident = SnakeCase(ast.ident) \o <<"_","i","d">>

(* The column that supplies the primary key of a descriptor.               *)
PrimaryKeyColumn(a) ==
    IF MarkedFields(a) # {} THEN Smallest(MarkedFields(a))
    ELSE Smallest(Candidates(a))

(* C7: in a descriptor the column that supplies primary_key has            *)
(* has_database_default, every marked column has it, and so has every      *)
(* marked column the column assembler produces.                            *)
C7_PrimaryKeyHasDefault ==
    /\ table.kind = "Ok" =>
          LET cols == table.value.columns
          IN /\ cols[PrimaryKeyColumn(ast)].has_database_default
             /\ Some(cols[PrimaryKeyColumn(ast)].column_name) = table.value.primary_key
             /\ \A i \in DOMAIN cols :
                   cols[i].marked_primary_key => cols[i].has_database_default
    /\ (column.kind = "Ok" /\ column.value.marked_primary_key) =>
          column.value.has_database_default

C7_Witness ==
    /\ table.kind = "Ok"
    /\ MarkedFields(ast) = {}
    /\ ~Flagged(ast.fields[PrimaryKeyColumn(ast)].attrs, "default")
    /\ table.value.columns[PrimaryKeyColumn(ast)].has_database_default

(* C8: every descriptor has a non-empty table_name, also when the `table`  *)
(* directive gives the empty string.                                       *)
C8_TableNameNonEmpty ==
    table.kind = "Ok" => table.value.table_name # <<>>

(* C8: as amended.  The table_name of a descriptor is the string of the    *)
(* last `table` directive, or the snake case of the type identifier when   *)
(* there is none; it is empty exactly when that directive gives the empty  *)
(* string.                                                                 *)
C8_TableNameAsGiven ==
    table.kind = "Ok" =>
        /\ table.value.table_name = FinalTableName(ast)
        /\ table.value.table_name = <<>> <=> LastSupplied(ast.attrs, "table") = Some(<<>>)

C8_Witness ==
    /\ table.kind = "Ok"
    /\ Cardinality(Supplying(ast.attrs, "table")) = 2
    /\ table.value.table_name # <<>>
    /\ table.value.table_name # ast.attrs[Smallest(Supplying(ast.attrs, "table"))].args.table[1]

(* The last segment of the path the last group gives to many_to_one_key.   *)
LastManyToOneKey(attrs) ==
    IF LastSupplied(attrs, "many_to_one_key") = None THEN None
    ELSE LET path == LastSupplied(attrs, "many_to_one_key")[1]
         IN Some(path[Len(path)])

(* C9: directive groups are merged left to right and the last write wins:  *)
(* each option of a column or a descriptor has the value of the last group *)
(* that supplies it, and a flag is set when some group gives it.           *)
C9_LastWriteWins ==
    /\ column.kind = "Ok" =>
          /\ column.value.marked_primary_key = Flagged(field.attrs, "primary_key")
          /\ column.value.has_database_default =
                 (Flagged(field.attrs, "primary_key") \/ Flagged(field.attrs, "default"))
          /\ column.value.many_to_one_key = LastManyToOneKey(field.attrs)
          /\ column.value.many_to_many_table_name =
                 LastSupplied(field.attrs, "many_to_many_table_name")
          /\ column.value.one_to_many_foreign_key =
                 LastSupplied(field.attrs, "one_to_many_foreign_key")
    /\ table.kind = "Ok" =>
          /\ LastSupplied(ast.attrs, "table") # None =>
                 Some(table.value.table_name) = LastSupplied(ast.attrs, "table")
          /\ table.value.insert_struct = LastSupplied(ast.attrs, "Insertable")

C9_Witness ==
    /\ column.kind = "Ok"
    /\ Cardinality(Supplying(field.attrs, "many_to_one_key")) = 2
    /\ LET first == field.attrs[Smallest(Supplying(field.attrs, "many_to_one_key"))]
           path == first.args.many_to_one_key[1]
       IN column.value.many_to_one_key # Some(path[Len(path)])

(* What table assembly makes of the column the assembler produced for      *)
(* field i: only the inferred primary key gets has_database_default.       *)
ExpectedColumn(a, i) ==
    LET c == ColumnMetadataTryFrom(a.fields[i]).value
    IN IF MarkedFields(a) = {} /\ i = Smallest(Candidates(a))
       THEN [c EXCEPT !.has_database_default = TRUE]
       ELSE c

(* C10: the columns of a descriptor are the column assembler's results for *)
(* the fields, one per field in declaration order, except that the column  *)
(* inferred as primary key by its name has has_database_default set.       *)
C10_ColumnsArePerFieldResults ==
    table.kind = "Ok" =>
        /\ Len(table.value.columns) = Len(ast.fields)
        /\ \A i \in DOMAIN ast.fields :
              table.value.columns[i] = ExpectedColumn(ast, i)

C10_Witness ==
    /\ table.kind = "Ok"
    /\ MarkedFields(ast) = {}
    /\ Candidates(ast) = {1, 2}
    /\ table.value.columns[1].has_database_default
    /\ ~table.value.columns[2].has_database_default

====
